---- MODULE Spec2Model ----
(***************************************************************************)
(* A model of package gorender (render.go): the configuration built by     *)
(* New / WithRenderOptions, the template-cache builder                     *)
(* (findHTMLFiles, createTemplateCache) and the render call                *)
(* Render.Template.                                                        *)
(*                                                                         *)
(* Representation.                                                         *)
(*  - A path is a record [dir, name]: dir is the directory part, name is   *)
(*    the final element, split at its dots: "home.html" is                 *)
(*    <<"home", ".html">>, "notes" is <<"notes">>, "a.html.bak" is         *)
(*    <<"a", ".html", ".bak">>.                                            *)
(*  - A file system gives, for each root, the sequence of callback         *)
(*    invocations filepath.WalkDir makes (lexical order), and for each     *)
(*    file what its template source does when parsed and executed.         *)
(*  - The files may change while a build reads them: a build is given      *)
(*    the disk as a record [from, at, to], the file system `from` for      *)
(*    its first `at` disk accesses and `to` afterwards.  The accesses      *)
(*    of createTemplateCache are, in order: the walk of the pages root,    *)
(*    the walk of the templates root, then for each page the reads of      *)
(*    the files ParseFiles is given.  (The file systems of the model       *)
(*    differ in one directory of a walk at most, so a walk sees one of     *)
(*    them.)                                                               *)
(*  - An error is a record [kind, file]; NoErr is Go's nil error.          *)
(*  - A nil template.FuncMap is the empty map (ranging over either runs    *)
(*    zero iterations).                                                    *)
(***************************************************************************)
EXTENDS Naturals, Sequences, FiniteSets, TLC

VARIABLES
    fs,         \* the file system currently on disk (a member of FileSystems)
    re,         \* the *Render configuration
    phase,      \* "new": New is applying options; "ready": New has returned
    applied,    \* the options New has applied so far, in order
    log,        \* one entry per createTemplateCache invocation
    lastBuild,  \* inputs and result of the latest createTemplateCache invocation
    ncalls,     \* number of Render.Template calls started
    calls,      \* per calling goroutine: the frame of its Render.Template call
    probe       \* a findHTMLFiles call on its own: the walk and what it returned

vars == <<fs, re, phase, applied, log, lastBuild, ncalls, calls, probe>>

----------------------------------------------------------------------------
\* Bounds of the model.

MaxOpts == 2        \* options passed to New, construction alone
MaxCoreOpts == 1    \* options passed to New, where render calls follow
MaxCalls == 2       \* Render.Template calls issued after New returns
MaxWalk == 3        \* callback invocations of one walk, findHTMLFiles alone
NumThreads == 2     \* goroutines that may call Render.Template
MaxAccess == 11     \* disk accesses of one build after which the files may change

Threads == 1..NumThreads

----------------------------------------------------------------------------
\* Errors.

NoFile == [dir |-> "", name |-> <<>>]
NoErr == [kind |-> "nil", file |-> NoFile]
Err(kind, file) == [kind |-> kind, file |-> file]

----------------------------------------------------------------------------
\* Maps (Go map[string]T): functions whose domain is the key set.

EmptyMap == [k \in {} |-> NoErr]

MapPut(m, k, v) == [x \in (DOMAIN m) \cup {k} |-> IF x = k THEN v ELSE m[x]]

----------------------------------------------------------------------------
\* Paths: filepath.Base and filepath.Ext.

File(dir, name) == [dir |-> dir, name |-> name]

\* filepath.Base: the last element of the path.
Base(path) == path.name

\* filepath.Ext: the suffix beginning at the final dot of the last element,
\* empty when the element has no dot.
Ext(path) == IF Len(path.name) >= 2 THEN path.name[Len(path.name)] ELSE ""

HtmlExt == ".html"

----------------------------------------------------------------------------
\* The files of the model.

HomeHtml == <<"home", ".html">>
AboutHtml == <<"about", ".html">>
PromoHtml == <<"promo", ".html">>
LayoutHtml == <<"layout", ".html">>
MissingHtml == <<"missing", ".html">>

tLayout == File("templates", LayoutHtml)
tPagesDir == File("templates", <<"pages">>)
tAbout == File("templates/pages", AboutHtml)
tHome == File("templates/pages", HomeHtml)
tNotes == File("templates/pages", <<"notes", ".txt">>)
tBackup == File("templates/pages", <<"home", ".html", ".bak">>)

fLayout == File("frag", LayoutHtml)
fHome == File("frag", HomeHtml)

pDirA == File("pages", <<"a">>)
pHomeA == File("pages/a", HomeHtml)
pDirB == File("pages", <<"b">>)
pHomeB == File("pages/b", HomeHtml)
pPromo == File("pages", PromoHtml)
pDirHtml == File("pages", <<"x", ".html">>)

Root(dir) == File(dir, <<>>)

\* One callback invocation of filepath.WalkDir: the path, d.IsDir() and the
\* err argument.
Entry(path, isDir) == [path |-> path, isDir |-> isDir, err |-> NoErr]
Broken(path, isDir) == [path |-> path, isDir |-> isDir,
                        err |-> Err("DiscoveryError", path)]

WalkTemplates ==
    << Entry(Root("templates"), TRUE), Entry(tLayout, FALSE),
       Entry(tPagesDir, TRUE), Entry(tAbout, FALSE), Entry(tHome, FALSE),
       Entry(tBackup, FALSE), Entry(tNotes, FALSE) >>

WalkTemplatePages ==
    << Entry(Root("templates/pages"), TRUE), Entry(tAbout, FALSE),
       Entry(tHome, FALSE), Entry(tBackup, FALSE), Entry(tNotes, FALSE) >>

WalkFrag ==
    << Entry(Root("frag"), TRUE), Entry(fHome, FALSE), Entry(fLayout, FALSE) >>

WalkPages ==
    << Entry(Root("pages"), TRUE), Entry(pDirA, TRUE), Entry(pHomeA, FALSE),
       Entry(pDirB, TRUE), Entry(pHomeB, FALSE), Entry(pPromo, FALSE),
       Entry(pDirHtml, TRUE) >>

\* The directory pages/b cannot be read: WalkDir reports it a second time
\* with the error, after the files of pages/a.
WalkPagesBroken ==
    << Entry(Root("pages"), TRUE), Entry(pDirA, TRUE), Entry(pHomeA, FALSE),
       Entry(pDirB, TRUE), Broken(pDirB, TRUE) >>

FileSystems == {"sound", "malformed", "unreadable"}

\* The callback invocations of filepath.WalkDir(root, fn) on file system f,
\* up to the first one for which fn might return an error.  A root that
\* does not exist (the empty path among them) is reported once, with the
\* error of the failed Lstat.
Walk(f, root) ==
    CASE root = "templates" -> WalkTemplates
      [] root = "templates/pages" -> WalkTemplatePages
      [] root = "frag" -> WalkFrag
      [] root = "pages" -> IF f = "unreadable" THEN WalkPagesBroken ELSE WalkPages
      [] OTHER -> << Broken(Root(root), FALSE) >>

\* What the template source in a file does:
\*   "ok"     parses and executes;
\*   "field"  parses; executing it writes its head and then reads a field of
\*            the data, failing if the field is absent;
\*   "func"   calls the template function "upper": it parses only if that
\*            name is registered;
\*   "bad"    malformed: it does not parse.
Kind(f, path) ==
    CASE path = tAbout -> "field"
      [] path = pHomeB -> "field"
      [] path = pPromo -> "func"
      [] path = tHome -> IF f = "malformed" THEN "bad" ELSE "ok"
      [] OTHER -> "ok"

\* The disk during one build: file system `from` for the first `at` disk
\* accesses of the build, `to` from then on.
Still(f) == [from |-> f, at |-> 0, to |-> f]

Schedules(f) ==
    {Still(f)} \cup
    { [from |-> f, at |-> k, to |-> g] : k \in 0..MaxAccess, g \in FileSystems \ {f} }

\* The file system the k-th disk access of a build sees.
Disk(d, k) == IF k <= d.at THEN d.from ELSE d.to

----------------------------------------------------------------------------
\* findHTMLFiles: the WalkDir callback applied to each invocation in turn.
\* A callback invocation that carries an error stops the walk and the
\* function returns (nil, err); otherwise a non-directory whose extension
\* is ".html" is appended.

\* The walk returning, with the error, the files found before it.
RECURSIVE WalkFromPartial(_, _, _)
WalkFromPartial(entries, i, files) ==
    IF i > Len(entries)
    THEN [files |-> files, err |-> NoErr]
    ELSE IF entries[i].err # NoErr
         THEN [files |-> files, err |-> entries[i].err]
         ELSE IF ~entries[i].isDir /\ Ext(entries[i].path) = HtmlExt
              THEN WalkFromPartial(entries, i + 1, Append(files, entries[i].path))
              ELSE WalkFromPartial(entries, i + 1, files)

RECURSIVE WalkFrom(_, _, _)
WalkFrom(entries, i, files) ==
    IF i > Len(entries)
    THEN [files |-> files, err |-> NoErr]
    ELSE IF entries[i].err # NoErr
         THEN [files |-> <<>>, err |-> entries[i].err]
         ELSE IF ~entries[i].isDir /\ Ext(entries[i].path) = HtmlExt
              THEN WalkFrom(entries, i + 1, Append(files, entries[i].path))
              ELSE WalkFrom(entries, i + 1, files)

findHTMLFiles(f, root) == WalkFrom(Walk(f, root), 1, <<>>)

----------------------------------------------------------------------------
\* template.New(name).Funcs(funcs).ParseFiles(list...): the files are parsed
\* in order, each defining the template named by its base name (a later
\* file redefines an earlier one of the same name); the first file that
\* does not parse aborts the call.  The compiled set keeps its own copy of
\* the function map.

\* On disk d, the reads being the disk accesses after the a-th of the build.
RECURSIVE ParseFrom(_, _, _, _, _, _)
ParseFrom(d, a, funcs, list, i, defs) ==
    IF i > Len(list)
    THEN [defs |-> defs, err |-> NoErr]
    ELSE LET file == list[i]
             kind == Kind(Disk(d, a + i), file)
         IN  IF kind = "bad" \/ (kind = "func" /\ "upper" \notin DOMAIN funcs)
             THEN [defs |-> defs, err |-> Err("CompileError", file)]
             ELSE ParseFrom(d, a, funcs, list, i + 1,
                            MapPut(defs, Base(file), [file |-> file, kind |-> kind]))

ParseFiles(d, a, name, funcs, list) ==
    LET r == ParseFrom(d, a, funcs, list, 1, EmptyMap)
    IN  [ts |-> [name |-> name, defs |-> r.defs, funcs |-> funcs], err |-> r.err]

----------------------------------------------------------------------------
\* createTemplateCache, on disk d with configuration cfg.

\* The disk accesses a build has made before it parses its i-th page: the
\* two walks and, for each earlier page, the reads of the files and the page.
AccessesBefore(files, i) == 2 + (i - 1) * (Len(files) + 1)

\* The loop of createTemplateCache keeping the first bundle of a name.
RECURSIVE BuildFromKeepingFirst(_, _, _, _, _, _)
BuildFromKeepingFirst(d, funcs, files, pagesTemplates, i, myCache) ==
    IF i > Len(pagesTemplates)
    THEN [cache |-> myCache, err |-> NoErr]
    ELSE LET file == pagesTemplates[i]
             name == Base(file)
             p == ParseFiles(d, AccessesBefore(files, i), name, funcs,
                             Append(files, file))
         IN  IF p.err # NoErr
             THEN [cache |-> myCache, err |-> p.err]
             ELSE BuildFromKeepingFirst(d, funcs, files, pagesTemplates, i + 1,
                      IF name \in DOMAIN myCache THEN myCache
                      ELSE MapPut(myCache, name, p.ts))

\* The loop of createTemplateCache over the page files, from the i-th.
RECURSIVE BuildFrom(_, _, _, _, _, _)
BuildFrom(d, funcs, files, pagesTemplates, i, myCache) ==
    IF i > Len(pagesTemplates)
    THEN [cache |-> myCache, err |-> NoErr]
    ELSE LET file == pagesTemplates[i]
             name == Base(file)
             p == ParseFiles(d, AccessesBefore(files, i), name, funcs,
                             Append(files, file))
         IN  IF p.err # NoErr
             THEN [cache |-> myCache, err |-> p.err]
             ELSE BuildFrom(d, funcs, files, pagesTemplates, i + 1,
                            MapPut(myCache, name, p.ts))

createTemplateCache(d, cfg) ==
    LET pages == findHTMLFiles(Disk(d, 1), cfg.PageTemplatesPath)
        frags == findHTMLFiles(Disk(d, 2), cfg.TemplatesPath)
    IN  IF pages.err # NoErr
        THEN [cache |-> EmptyMap, err |-> pages.err,
              pages |-> pages.files, files |-> <<>>]
        ELSE IF frags.err # NoErr
             THEN [cache |-> EmptyMap, err |-> frags.err,
                   pages |-> pages.files, files |-> frags.files]
             ELSE LET b == BuildFrom(d, cfg.Functions, frags.files, pages.files,
                                     1, EmptyMap)
                  IN  [cache |-> b.cache, err |-> b.err,
                       pages |-> pages.files, files |-> frags.files]

----------------------------------------------------------------------------
\* Rendering: the data, the token capability, execution and the sink.

\* nosurf.Token(r): the token the anti-forgery middleware holds for the
\* request.
Token(r) == r.token

\* addDefaultData that keeps a token the caller already set.
addDefaultDataIfEmpty(td, r) ==
    IF td.CSRFToken = "" THEN [td EXCEPT !.CSRFToken = Token(r)] ELSE td

\* addDefaultData
addDefaultData(td, r) == [td EXCEPT !.CSRFToken = Token(r)]

Chunk(file, part, val) == [file |-> file, part |-> part, val |-> val]

\* t.Execute(buf, td): executes the template named t.name of the set,
\* writing to buf as it goes; an execution that fails leaves what it had
\* already written in buf.
Execute(t, td) ==
    LET def == t.defs[t.name]
        head == << Chunk(def.file, "head", "") >>
    IN  CASE def.kind = "field" ->
                IF "Title" \in td.Data
                THEN [buf |-> Append(head, Chunk(def.file, "field", "Title")),
                      err |-> NoErr]
                ELSE [buf |-> head, err |-> Err("ExecutionError", def.file)]
          [] def.kind = "func" ->
                [buf |-> Append(head, Chunk(def.file, "func", t.funcs["upper"])),
                 err |-> NoErr]
          [] OTHER ->
                [buf |-> Append(head, Chunk(def.file, "csrf", td.CSRFToken)),
                 err |-> NoErr]

\* The writers a caller may pass: one that takes everything, one whose
\* connection is closed (takes nothing) and one that takes the first chunk
\* and then fails.
Writers == {"open", "closed", "short"}

\* How many of n chunks writer w takes.
Taken(w, n) ==
    CASE w = "open" -> n
      [] w = "closed" -> 0
      [] OTHER -> IF n > 1 THEN 1 ELSE n

\* buf.WriteTo(w): one w.Write of the whole buffer; nothing is written, and
\* nothing fails, for an empty buffer.
WriteTo(buf, w) ==
    LET n == Taken(w, Len(buf))
    IN  [written |-> SubSeq(buf, 1, n),
         err |-> IF n < Len(buf) THEN Err("IOError", NoFile) ELSE NoErr]

----------------------------------------------------------------------------
\* The configuration surface: New, WithRenderOptions, apply.

\* The function map New starts from.
DefaultFunctions ==
    [n \in {"translateKey", "or", "containsErrors"} |-> "builtin"]

\* The merge replaced by an assignment of the supplied map.
MergeFunctionsReplacing(base, supplied) ==
    IF DOMAIN supplied = {} THEN base ELSE supplied

\* for k, v := range opts.Functions { re.Functions[k] = v }
MergeFunctions(base, supplied) ==
    [n \in (DOMAIN base) \cup (DOMAIN supplied) |->
        IF n \in DOMAIN supplied THEN supplied[n] ELSE base[n]]

\* No builder invocation.
NoBuild ==
    [site |-> "none", cache |-> EmptyMap, err |-> NoErr,
     pages |-> <<>>, files |-> <<>>, on |-> <<>>]

\* The closure returned by WithRenderOptions(opts), applied to cfg on disk
\* d: the new configuration, whether the builder ran and what it
\* returned (its error is assigned to the blank identifier).
WithRenderOptions(d, cfg, opts) ==
    LET re1 == [cfg EXCEPT !.TemplatesPath = opts.TemplatesPath,
                           !.PageTemplatesPath = opts.PageTemplatesPath,
                           !.Functions = MergeFunctions(cfg.Functions, opts.Functions)]
        re2 == [re1 EXCEPT !.EnableCache = opts.EnableCache]
    IN  IF opts.EnableCache
        THEN LET b == createTemplateCache(d, re2)
             IN  [re |-> [re2 EXCEPT !.TemplateCache = b.cache],
                  built |-> TRUE, build |-> b]
        ELSE [re |-> re1, built |-> FALSE, build |-> NoBuild]

\* The values an option may carry: its two roots (the pages root left unset
\* in one), its functions and its cache flag.
OptRoots ==
    { <<"templates", "templates/pages">>, <<"frag", "pages">>, <<"templates", "">> }
OptFunctions ==
    { EmptyMap,
      [n \in {"or"} |-> "custom"],
      [n \in {"or", "upper"} |-> IF n = "or" THEN "other" ELSE "upcase"] }

Opt(frag, pages, funcs, cache) ==
    [TemplatesPath |-> frag, PageTemplatesPath |-> pages,
     Functions |-> funcs, EnableCache |-> cache]

Options ==
    { Opt(p[1], p[2], fn, c) : p \in OptRoots, fn \in OptFunctions, c \in BOOLEAN }

\* The options used where render calls follow construction.
CoreOptions ==
    { Opt("templates", "templates/pages", EmptyMap, TRUE),
      Opt("frag", "templates/pages", EmptyMap, FALSE),
      Opt("frag", "pages", EmptyMap, TRUE),
      Opt("frag", "pages", [n \in {"or", "upper"} |->
                               IF n = "or" THEN "other" ELSE "upcase"], FALSE) }

----------------------------------------------------------------------------
\* The frame of a Render.Template call.

\* The request of the calls made one after another; concurrent calls carry
\* two requests (ConcInputs).
Requests == { [id |-> 1, token |-> "tokA"] }
NoRequest == [id |-> 0, token |-> ""]

TemplateNames == {HomeHtml, AboutHtml, PromoHtml, MissingHtml}

\* The caller's *TemplateData: the keys of Data and the CSRFToken field.
ViewData == [Data : {{}, {"Title"}}, CSRFToken : {"", "stale"}]
NoData == [Data |-> {}, CSRFToken |-> ""]

IdleFrame ==
    [pc |-> "idle", tmpl |-> <<>>, r |-> NoRequest, td |-> NoData,
     tdIn |-> NoData, w |-> "open", tc |-> EmptyMap, buf |-> <<>>,
     werr |-> NoErr, written |-> <<>>, ret |-> NoErr, issued |-> 0]

\* A builder invocation: who made it, on which roots and functions, what it
\* discovered and what it returned.
BuildRecord(site, cfg, b) ==
    [site |-> site, cache |-> b.cache, err |-> b.err,
     pages |-> b.pages, files |-> b.files,
     on |-> <<cfg.PageTemplatesPath, cfg.TemplatesPath, cfg.Functions>>]

InFlight(c) == calls[c].pc \in {"Resolving", "Lookup", "Executing", "Flushing"}

\* No findHTMLFiles call on its own.
NoProbe == [entries |-> <<>>, done |-> FALSE, out |-> [files |-> <<>>, err |-> NoErr]]

----------------------------------------------------------------------------
\* The state machine.

\* New, up to the call of apply: the default configuration.
Init ==
    /\ fs \in FileSystems
    /\ re = [EnableCache |-> FALSE, TemplatesPath |-> "templates",
             PageTemplatesPath |-> "templates/pages",
             TemplateCache |-> EmptyMap, Functions |-> DefaultFunctions]
    /\ phase = "new"
    /\ applied = <<>>
    /\ log = <<>>
    /\ lastBuild = NoBuild
    /\ ncalls = 0
    /\ calls = [c \in Threads |-> IdleFrame]
    /\ probe = NoProbe

\* An option applied with no regard to whether New has returned: the
\* configuration is still being populated while render calls run.
ApplyOptionAfterReturn(opts) ==
    /\ Len(applied) < MaxOpts
    /\ \E d \in (IF opts.EnableCache THEN Schedules(fs) ELSE {Still(fs)}) :
          LET w == WithRenderOptions(d, re, opts)
          IN  /\ re' = w.re
              /\ fs' = d.to
              /\ IF w.built
                 THEN /\ log' = Append(log, [site |-> "New", err |-> w.build.err,
                                             surfaced |-> FALSE])
                      /\ lastBuild' = BuildRecord("New", w.re, w.build)
                 ELSE UNCHANGED <<log, lastBuild>>
    /\ applied' = Append(applied, opts)
    /\ UNCHANGED <<phase, ncalls, calls, probe>>

\* apply: one iteration of the loop, opt(re).
ApplyOption(opts) ==
    /\ phase = "new"
    /\ Len(applied) < MaxOpts
    /\ \E d \in (IF opts.EnableCache THEN Schedules(fs) ELSE {Still(fs)}) :
          LET w == WithRenderOptions(d, re, opts)
          IN  /\ re' = w.re
              /\ fs' = d.to
              /\ IF w.built
                 THEN /\ log' = Append(log, [site |-> "New", err |-> w.build.err,
                                             surfaced |-> FALSE])
                      /\ lastBuild' = BuildRecord("New", w.re, w.build)
                 ELSE UNCHANGED <<log, lastBuild>>
    /\ applied' = Append(applied, opts)
    /\ UNCHANGED <<phase, ncalls, calls, probe>>

\* apply returns re and New returns it: a *Render, with no error value.
ReturnNew ==
    /\ phase = "new"
    /\ phase' = "ready"
    /\ UNCHANGED <<fs, re, applied, log, lastBuild, ncalls, calls, probe>>

\* The files on disk change between two steps of the program, at any time;
\* a change during a build is part of the building step.
ChangeFS(f) ==
    /\ f # fs
    /\ fs' = f
    /\ UNCHANGED <<re, phase, applied, log, lastBuild, ncalls, calls, probe>>

\* A caller enters re.Template(w, r, tmpl, td) with a fresh writer.
Begin(c, tmpl, r, td, w) ==
    /\ phase = "ready"
    /\ ~InFlight(c)
    /\ ncalls < MaxCalls
    /\ ncalls' = ncalls + 1
    /\ calls' = [calls EXCEPT ![c] =
                    [IdleFrame EXCEPT !.pc = "Resolving", !.tmpl = tmpl, !.r = r,
                                      !.td = td, !.tdIn = td, !.w = w]]
    /\ UNCHANGED <<fs, re, phase, applied, log, lastBuild, probe>>

\* Resolve that fills the stored cache on first use and reads it afterwards,
\* whatever EnableCache says.
ResolveLazily(c) ==
    /\ calls[c].pc = "Resolving"
    /\ IF re.EnableCache \/ DOMAIN re.TemplateCache # {}
       THEN /\ calls' = [calls EXCEPT ![c].tc = re.TemplateCache,
                                      ![c].pc = "Lookup"]
            /\ UNCHANGED <<fs, re, log, lastBuild>>
       ELSE \E d \in Schedules(fs) :
            LET b == createTemplateCache(d, re)
            IN  /\ fs' = d.to
                /\ log' = Append(log, [site |-> "Template", err |-> b.err,
                                       surfaced |-> b.err # NoErr])
                /\ lastBuild' = BuildRecord("Template", re, b)
                /\ re' = [re EXCEPT !.TemplateCache = b.cache]
                /\ IF b.err # NoErr
                   THEN calls' = [calls EXCEPT ![c].tc = b.cache,
                                               ![c].ret = b.err,
                                               ![c].pc = "returned"]
                   ELSE calls' = [calls EXCEPT ![c].tc = b.cache,
                                               ![c].pc = "Lookup"]
    /\ UNCHANGED <<phase, applied, ncalls, probe>>

\* Resolve that builds on every call, whatever EnableCache says.
ResolveAlwaysBuilding(c) ==
    /\ calls[c].pc = "Resolving"
    /\ \E d \in Schedules(fs) :
       LET b == createTemplateCache(d, re)
       IN  /\ fs' = d.to
           /\ log' = Append(log, [site |-> "Template", err |-> b.err,
                                  surfaced |-> b.err # NoErr])
           /\ lastBuild' = BuildRecord("Template", re, b)
           /\ IF b.err # NoErr
              THEN calls' = [calls EXCEPT ![c].tc = b.cache,
                                          ![c].ret = b.err,
                                          ![c].pc = "returned"]
              ELSE calls' = [calls EXCEPT ![c].tc = b.cache,
                                          ![c].pc = "Lookup"]
    /\ UNCHANGED <<re, phase, applied, ncalls, probe>>

\* Lines 101-109: take the stored cache, or build one.
Resolve(c) ==
    /\ calls[c].pc = "Resolving"
    /\ IF re.EnableCache
       THEN /\ calls' = [calls EXCEPT ![c].tc = re.TemplateCache,
                                      ![c].pc = "Lookup"]
            /\ UNCHANGED <<fs, log, lastBuild>>
       ELSE \E d \in Schedules(fs) :
            LET b == createTemplateCache(d, re)
            IN  /\ fs' = d.to
                /\ log' = Append(log, [site |-> "Template", err |-> b.err,
                                       surfaced |-> b.err # NoErr])
                /\ lastBuild' = BuildRecord("Template", re, b)
                /\ IF b.err # NoErr
                   THEN calls' = [calls EXCEPT ![c].tc = b.cache,
                                               ![c].ret = b.err,
                                               ![c].pc = "returned"]
                   ELSE calls' = [calls EXCEPT ![c].tc = b.cache,
                                               ![c].pc = "Lookup"]
    /\ UNCHANGED <<re, phase, applied, ncalls, probe>>

\* Lookup without the test of ok: executing the nil template panics.
LookupUnchecked(c) ==
    /\ calls[c].pc = "Lookup"
    /\ IF calls[c].tmpl \in DOMAIN calls[c].tc
       THEN calls' = [calls EXCEPT ![c].pc = "Executing"]
       ELSE calls' = [calls EXCEPT ![c].ret = Err("panic", NoFile),
                                   ![c].pc = "returned"]
    /\ UNCHANGED <<fs, re, phase, applied, log, lastBuild, ncalls, probe>>

\* Lookup with addDefaultData called before the test of ok.
LookupInjectingToken(c) ==
    /\ calls[c].pc = "Lookup"
    /\ LET td1 == addDefaultData(calls[c].td, calls[c].r)
       IN  IF calls[c].tmpl \in DOMAIN calls[c].tc
           THEN calls' = [calls EXCEPT ![c].td = td1,
                                       ![c].issued = calls[c].issued + 1,
                                       ![c].pc = "Executing"]
           ELSE calls' = [calls EXCEPT ![c].td = td1,
                                       ![c].issued = calls[c].issued + 1,
                                       ![c].ret = Err("LookupError", NoFile),
                                       ![c].pc = "returned"]
    /\ UNCHANGED <<fs, re, phase, applied, log, lastBuild, ncalls, probe>>

\* Lines 111-114: t, ok := tc[tmpl].
Lookup(c) ==
    /\ calls[c].pc = "Lookup"
    /\ IF calls[c].tmpl \in DOMAIN calls[c].tc
       THEN calls' = [calls EXCEPT ![c].pc = "Executing"]
       ELSE calls' = [calls EXCEPT ![c].ret = Err("LookupError", NoFile),
                                   ![c].pc = "returned"]
    /\ UNCHANGED <<fs, re, phase, applied, log, lastBuild, ncalls, probe>>

\* ExecuteTemplate with the template executed straight into the writer
\* instead of a staging buffer.
ExecuteTemplateUnstaged(c) ==
    /\ calls[c].pc = "Executing"
    /\ LET td1 == addDefaultData(calls[c].td, calls[c].r)
           x == Execute(calls[c].tc[calls[c].tmpl], td1)
           o == WriteTo(x.buf, calls[c].w)
       IN  IF x.err # NoErr
           THEN calls' = [calls EXCEPT ![c].td = td1, ![c].written = o.written,
                                       ![c].issued = calls[c].issued + 1,
                                       ![c].ret = x.err, ![c].pc = "returned"]
           ELSE calls' = [calls EXCEPT ![c].td = td1, ![c].written = o.written,
                                       ![c].issued = calls[c].issued + 1,
                                       ![c].werr = o.err, ![c].pc = "returned"]
    /\ UNCHANGED <<fs, re, phase, applied, log, lastBuild, ncalls, probe>>

\* Lines 116-122: the staging buffer, addDefaultData and t.Execute.
ExecuteTemplate(c) ==
    /\ calls[c].pc = "Executing"
    /\ LET td1 == addDefaultData(calls[c].td, calls[c].r)
           x == Execute(calls[c].tc[calls[c].tmpl], td1)
       IN  IF x.err # NoErr
           THEN calls' = [calls EXCEPT ![c].td = td1, ![c].buf = x.buf,
                                       ![c].issued = calls[c].issued + 1,
                                       ![c].ret = x.err, ![c].pc = "returned"]
           ELSE calls' = [calls EXCEPT ![c].td = td1, ![c].buf = x.buf,
                                       ![c].issued = calls[c].issued + 1,
                                       ![c].pc = "Flushing"]
    /\ UNCHANGED <<fs, re, phase, applied, log, lastBuild, ncalls, probe>>

\* Lines 124-129: buf.WriteTo(w); a failure is logged and nil is returned.
Flush(c) ==
    /\ calls[c].pc = "Flushing"
    /\ LET x == WriteTo(calls[c].buf, calls[c].w)
       IN  calls' = [calls EXCEPT ![c].written = x.written, ![c].werr = x.err,
                                  ![c].ret = NoErr, ![c].pc = "returned"]
    /\ UNCHANGED <<fs, re, phase, applied, log, lastBuild, ncalls, probe>>

\* One caller issuing render calls one after another.
Caller == 1

Render ==
    \/ \E tmpl \in TemplateNames, r \in Requests, td \in ViewData, w \in Writers :
          Begin(Caller, tmpl, r, td, w)
    \/ Resolve(Caller)
    \/ Lookup(Caller)
    \/ ExecuteTemplate(Caller)
    \/ Flush(Caller)

\* Construction followed by render calls.
Next ==
    \/ \E o \in CoreOptions : Len(applied) < MaxCoreOpts /\ ApplyOption(o)
    \/ ReturnNew
    \/ \E f \in FileSystems : ChangeFS(f)
    \/ Render

Spec == Init /\ [][Next]_vars

\* Construction alone, over every option.
NextNew ==
    \/ \E o \in Options : ApplyOption(o)
    \/ ReturnNew
    \/ \E f \in FileSystems : ChangeFS(f)

SpecNew == Init /\ [][NextNew]_vars

\* Concurrent render calls: every goroutine of Threads calls Template on
\* the one configuration, the steps of the calls interleaving.  New is
\* given no option or the cache-enabling one; one input fails at execution,
\* the other at the flush.
ConcOptions == { Opt("templates", "templates/pages", EmptyMap, TRUE) }

ConcInputs ==
    { [tmpl |-> AboutHtml, r |-> [id |-> 1, token |-> "tokA"],
       td |-> [Data |-> {}, CSRFToken |-> ""], w |-> "open"],
      [tmpl |-> HomeHtml, r |-> [id |-> 2, token |-> "tokB"],
       td |-> [Data |-> {}, CSRFToken |-> "stale"], w |-> "closed"] }

NextConc ==
    \/ \E o \in ConcOptions : applied = <<>> /\ ApplyOption(o)
    \/ ReturnNew
    \/ \E f \in FileSystems : ChangeFS(f)
    \/ \E c \in Threads :
          \/ \E i \in ConcInputs : Begin(c, i.tmpl, i.r, i.td, i.w)
          \/ Resolve(c)
          \/ Lookup(c)
          \/ ExecuteTemplate(c)
          \/ Flush(c)

SpecConc == Init /\ [][NextConc]_vars

\* findHTMLFiles on its own, over every walk of at most MaxWalk callback
\* invocations.
WalkEntries ==
    { Entry(pHomeA, FALSE), Entry(pPromo, FALSE), Entry(tNotes, FALSE),
      Entry(tBackup, FALSE), Entry(pDirHtml, TRUE), Broken(pDirB, TRUE) }

Walks == UNION { [1..n -> WalkEntries] : n \in 0..MaxWalk }

InitFind ==
    /\ fs = "sound"
    /\ re = [EnableCache |-> FALSE, TemplatesPath |-> "templates",
             PageTemplatesPath |-> "templates/pages",
             TemplateCache |-> EmptyMap, Functions |-> DefaultFunctions]
    /\ phase = "new"
    /\ applied = <<>>
    /\ log = <<>>
    /\ lastBuild = NoBuild
    /\ ncalls = 0
    /\ calls = [c \in Threads |-> IdleFrame]
    /\ probe \in {[NoProbe EXCEPT !.entries = e] : e \in Walks}

\* The call findHTMLFiles(root) whose walk makes the invocations
\* probe.entries.
FindFiles ==
    /\ ~probe.done
    /\ probe' = [probe EXCEPT !.done = TRUE,
                              !.out = WalkFrom(probe.entries, 1, <<>>)]
    /\ UNCHANGED <<fs, re, phase, applied, log, lastBuild, ncalls, calls>>

NextFind == FindFiles

SpecFind == InitFind /\ [][NextFind]_vars

----------------------------------------------------------------------------
\* Properties.

Returned(c) == calls[c].pc = "returned"
Failed(c) == Returned(c) /\ calls[c].ret # NoErr
Succeeded(c) == Returned(c) /\ calls[c].ret = NoErr

\* C1: whenever a Render.Template call has returned an error (a failed
\* build, an unknown name, a failed execution, also one that had produced
\* partial output), the call has written nothing to its writer.
C1_FailedCallWritesNothing ==
    \A c \in Threads : Failed(c) => calls[c].written = <<>>

\* An execution failed after producing output, on a writer that would have
\* taken it, and nothing was written.
C1_Witness ==
    \E c \in Threads :
        /\ Failed(c)
        /\ calls[c].ret.kind = "ExecutionError"
        /\ calls[c].buf # <<>>
        /\ calls[c].w = "open"
        /\ calls[c].written = <<>>

\* C2: with the cache enabled or disabled, a call whose resolved mapping
\* has no entry for the requested name returns a lookup error to its caller
\* and has written nothing.
C2_UnknownNameIsLookupError ==
    [][\A c \in Threads :
          (/\ calls[c].pc = "Lookup"
           /\ calls[c].tmpl \notin DOMAIN calls[c].tc
           /\ calls'[c] # calls[c])
          => (/\ calls'[c].pc = "returned"
              /\ calls'[c].ret.kind = "LookupError"
              /\ calls'[c].written = <<>>)]_vars

\* A call on a freshly built, non-empty mapping returned the lookup error.
C2_Witness ==
    \E c \in Threads :
        /\ Returned(c)
        /\ calls[c].ret.kind = "LookupError"
        /\ ~re.EnableCache
        /\ DOMAIN calls[c].tc # {}
        /\ calls[c].tmpl \notin DOMAIN calls[c].tc
        /\ calls[c].written = <<>>

\* C3: a call whose copy of the staging buffer to the writer failed returns
\* the IO error to its caller.
C3_FlushFailureIsReturned ==
    \A c \in Threads :
        (Returned(c) /\ calls[c].werr # NoErr) => calls[c].ret.kind = "IOError"

\* C4: once New has returned with the cache enabled, no step of a render
\* call invokes the builder, and every call resolves to the stored cache.
C4_CachedCallsNeverBuild ==
    [][(phase = "ready" /\ re.EnableCache)
       => (/\ Len(log') = Len(log)
           /\ \A c \in Threads :
                 (calls[c].pc = "Resolving" /\ calls'[c].pc # "Resolving")
                 => calls'[c].tc = re.TemplateCache)]_vars

\* Two calls were made on a cache-enabled configuration, the second
\* succeeded, and the only builds are those of New.
C4_Witness ==
    /\ phase = "ready"
    /\ re.EnableCache
    /\ ncalls >= 2
    /\ Succeeded(Caller)
    /\ log # <<>>
    /\ \A i \in DOMAIN log : log[i].site = "New"

\* C5: with the cache disabled, every render call invokes the builder
\* exactly once (so the calls that have resolved are as many as the builds),
\* resolves to the mapping that build returned, a mapping the builder gives
\* on the files as they were read during the call, and leaves the
\* configuration, its stored cache included, as it was.
C5_UncachedCallsBuildOnce ==
    /\ [](phase = "ready" /\ ~re.EnableCache
          => Len(log) = ncalls - Cardinality({c \in Threads : calls[c].pc = "Resolving"}))
    /\ [][(phase = "ready" /\ ~re.EnableCache)
          => (/\ re' = re
              /\ \A c \in Threads :
                    (calls[c].pc = "Resolving" /\ calls'[c].pc # "Resolving")
                    => (/\ Len(log') = Len(log) + 1
                        /\ lastBuild'.site = "Template"
                        /\ calls'[c].tc = lastBuild'.cache
                        /\ \E d \in Schedules(fs) :
                              /\ fs' = d.to
                              /\ calls'[c].tc = createTemplateCache(d, re).cache))]_vars

\* Two calls were made with the cache disabled, two builds ran, the second
\* call found its bundle and the stored cache is still empty.
C5_Witness ==
    /\ phase = "ready"
    /\ ~re.EnableCache
    /\ ncalls = 2
    /\ Len(log) = 2
    /\ Succeeded(Caller)
    /\ DOMAIN calls[Caller].tc # {}
    /\ DOMAIN re.TemplateCache = {}

\* C6: after a call that returned success, the caller's data holds the
\* token of that call's request, whatever it held before.
C6_SuccessSetsToken ==
    \A c \in Threads : Succeeded(c) => calls[c].td.CSRFToken = Token(calls[c].r)

\* A successful call whose data came in with another token.
C6_Witness ==
    \E c \in Threads :
        /\ Succeeded(c)
        /\ calls[c].tdIn.CSRFToken = "stale"
        /\ calls[c].td.CSRFToken = calls[c].r.token

\* The last position in the sequence of page files of a file named n.
LastNamed(pages, n) ==
    CHOOSE i \in DOMAIN pages :
        /\ Base(pages[i]) = n
        /\ \A j \in DOMAIN pages : Base(pages[j]) = n => j <= i

\* C7: a build in which everything compiled returns a mapping whose keys are
\* exactly the base names of the discovered page files, each name mapped to
\* the bundle of the last discovered page file of that name.
C7_CacheKeysAreBaseNames ==
    (lastBuild.site # "none" /\ lastBuild.err = NoErr)
    => /\ DOMAIN lastBuild.cache =
              {Base(lastBuild.pages[i]) : i \in DOMAIN lastBuild.pages}
       /\ \A n \in DOMAIN lastBuild.cache :
             /\ lastBuild.cache[n].name = n
             /\ lastBuild.cache[n].defs[n].file =
                    lastBuild.pages[LastNamed(lastBuild.pages, n)]

\* A build succeeded on page files two of which share a base name.
C7_Witness ==
    /\ lastBuild.site # "none"
    /\ lastBuild.err = NoErr
    /\ \E i, j \in DOMAIN lastBuild.pages :
          i < j /\ Base(lastBuild.pages[i]) = Base(lastBuild.pages[j])

\* The options applied so far that supplied function n.
Suppliers(n) == {i \in DOMAIN applied : n \in DOMAIN applied[i].Functions}

Last(S) == CHOOSE i \in S : \A j \in S : j <= i

\* C8: the function registry holds every default name and every name any
\* applied option supplied, each mapped to the callable of the last option
\* that supplied it, or to the default callable if none did.
C8_RegistryIsMerged ==
    /\ DOMAIN re.Functions =
          (DOMAIN DefaultFunctions)
             \cup UNION {DOMAIN applied[i].Functions : i \in DOMAIN applied}
    /\ \A n \in DOMAIN re.Functions :
          re.Functions[n] = IF Suppliers(n) = {} THEN DefaultFunctions[n]
                            ELSE applied[Last(Suppliers(n))].Functions[n]

\* New returned after two options that both supplied "or", with different
\* callables, only the first of them supplying "upper".
C8_Witness ==
    /\ phase = "ready"
    /\ Len(applied) = 2
    /\ "upper" \in DOMAIN applied[1].Functions
    /\ "upper" \notin DOMAIN applied[2].Functions
    /\ "or" \in DOMAIN applied[2].Functions
    /\ applied[1].Functions["or"] # applied[2].Functions["or"]

\* Mapping m holds a bundle that the latest, failed, build had compiled.
HoldsPartial(m) ==
    \E n \in DOMAIN lastBuild.cache :
        n \in DOMAIN m /\ m[n] = lastBuild.cache[n]

\* C9: when a build fails, the bundles it had compiled before the failure
\* are neither in the stored cache nor in a mapping a render call looks up
\* or executes from.
C9_NoPartialCache ==
    lastBuild.err # NoErr
    => /\ ~HoldsPartial(re.TemplateCache)
       /\ \A c \in Threads :
             calls[c].pc \in {"Lookup", "Executing", "Flushing"}
             => ~HoldsPartial(calls[c].tc)

\* C10: once New has returned, every error a build has raised, in
\* construction or in a render call, has been returned to a caller.
C10_BuildErrorsReturned ==
    phase = "ready" => \A i \in DOMAIN log : log[i].err # NoErr => log[i].surfaced

\* C11: after New has applied a sequence of options, the fragments root,
\* the pages root and the cache flag each hold the value the last option
\* gave (so a later option with the cache disabled turns an enabled cache
\* off), and the function maps are merged.
C11_LastOptionWins ==
    applied # <<>>
    => /\ re.TemplatesPath = applied[Len(applied)].TemplatesPath
       /\ re.PageTemplatesPath = applied[Len(applied)].PageTemplatesPath
       /\ re.EnableCache = applied[Len(applied)].EnableCache
       /\ DOMAIN re.Functions =
             (DOMAIN DefaultFunctions)
                \cup UNION {DOMAIN applied[i].Functions : i \in DOMAIN applied}

\* The phase of the per-call state machine a frame is in.
PhaseOf(frame) ==
    CASE frame.pc = "idle" -> "Idle"
      [] frame.pc \in {"Resolving", "Lookup"} -> "Resolving"
      [] frame.pc = "Executing" -> "Executing"
      [] frame.pc = "Flushing" -> "Flushing"
      [] OTHER -> IF frame.ret = NoErr THEN "Done" ELSE "Failed"

\* The phase changes a call may make: forward by one phase, or from any
\* phase in progress to Failed; a finished frame is reused by a new call.
PhaseSteps ==
    { <<"Idle", "Resolving">>, <<"Done", "Resolving">>, <<"Failed", "Resolving">>,
      <<"Resolving", "Executing">>, <<"Executing", "Flushing">>,
      <<"Flushing", "Done">>,
      <<"Resolving", "Failed">>, <<"Executing", "Failed">>, <<"Flushing", "Failed">> }

\* C12: a render call moves through Resolving, Executing, Flushing, Done in
\* that order, never back and never repeating a step, and a failure in any
\* phase, the flush included, moves it directly to Failed.
C12_PhasesInOrder ==
    [][\A c \in Threads :
          LET p == PhaseOf(calls[c])
              q == PhaseOf(calls'[c])
          IN  /\ (calls'[c] # calls[c] /\ ~(p = "Resolving" /\ q = "Resolving"))
                 => <<p, q>> \in PhaseSteps
              /\ (p = "Resolving" /\ q = "Resolving" /\ calls'[c] # calls[c])
                 => (calls[c].pc = "Resolving" /\ calls'[c].pc = "Lookup")
              /\ (p = "Flushing" /\ calls'[c].werr # NoErr) => q = "Failed"]_vars

\* C13: when New returns with the cache enabled, the stored cache is what
\* the builder returned on the final configuration (its final pages root,
\* fragments root and function registry), and the builder has run exactly
\* once, whatever the options and their order.
C13_CacheOfFinalConfiguration ==
    (phase = "ready" /\ re.EnableCache)
    => /\ re.TemplateCache = lastBuild.cache
       /\ lastBuild.on = <<re.PageTemplatesPath, re.TemplatesPath, re.Functions>>
       /\ Len(log) = 1

\* What a render call with the inputs of frame fr returns, writes and
\* leaves in the caller's data when it runs alone and its resolution gives
\* the build result b (the stored cache, or what the builder returned).
Alone(b, fr) ==
    LET td1 == [fr.tdIn EXCEPT !.CSRFToken = fr.r.token]
    IN  IF b.err # NoErr
        THEN [ret |-> b.err, written |-> <<>>, td |-> fr.tdIn]
        ELSE IF fr.tmpl \notin DOMAIN b.cache
             THEN [ret |-> Err("LookupError", NoFile), written |-> <<>>,
                   td |-> fr.tdIn]
             ELSE LET x == Execute(b.cache[fr.tmpl], td1)
                  IN  IF x.err # NoErr
                      THEN [ret |-> x.err, written |-> <<>>, td |-> td1]
                      ELSE [ret |-> NoErr, td |-> td1,
                            written |-> SubSeq(x.buf, 1, Taken(fr.w, Len(x.buf)))]

\* The build result a render call resolving now gets when it runs alone:
\* the stored cache, or what the builder returns to it, build being the
\* builder's invocation on the configuration.
Resolution(build) ==
    IF re.EnableCache
    THEN [cache |-> re.TemplateCache, err |-> NoErr]
    ELSE [cache |-> build.cache, err |-> build.err]

\* The error the resolution of a returned call gave: the error it returned,
\* when that is a builder's.
ResolvedOf(fr) ==
    [cache |-> fr.tc,
     err |-> IF fr.ret.kind \in {"DiscoveryError", "CompileError"}
             THEN fr.ret ELSE NoErr]

\* C14: under every interleaving of concurrent render calls, no step of a
\* render call changes the configuration; every call resolves to the
\* stored cache or to the result of its own build on that configuration,
\* and, whatever the other calls did or how they failed, ends as it would
\* have run alone from that resolution.
C14_CallsDoNotInterfere ==
    /\ [][phase = "ready" => re' = re]_vars
    /\ [][\A c \in Threads :
             (calls[c].pc = "Resolving" /\ calls'[c].pc # "Resolving")
             => LET b == Resolution(lastBuild')
                IN  /\ re.EnableCache => (lastBuild' = lastBuild /\ fs' = fs)
                    /\ ~re.EnableCache
                       => /\ lastBuild'.site = "Template"
                          /\ lastBuild'.on = <<re.PageTemplatesPath,
                                               re.TemplatesPath, re.Functions>>
                    /\ calls'[c].tc = b.cache
                    /\ IF b.err # NoErr
                       THEN calls'[c].pc = "returned" /\ calls'[c].ret = b.err
                       ELSE calls'[c].pc = "Lookup"]_vars
    /\ [](\A c \in Threads :
            Returned(c)
            => [ret |-> calls[c].ret, written |-> calls[c].written,
                td |-> calls[c].td] = Alone(ResolvedOf(calls[c]), calls[c]))

\* One call has failed at execution while another call on the same
\* cache-enabled configuration is in flight, about to flush.
C14_Witness ==
    \E c1, c2 \in Threads :
        /\ c1 # c2
        /\ Failed(c1)
        /\ calls[c1].ret.kind = "ExecutionError"
        /\ calls[c2].pc = "Flushing"
        /\ calls[c2].tc = re.TemplateCache
        /\ re.EnableCache

\* C15: a render call exists only once New has returned; from then on the
\* enabled cache is the complete result of the last build New made and does
\* not change, and it is what every call has resolved to.
C15_CachePublishedBeforeUse ==
    /\ [](\A c \in Threads : calls[c].pc # "idle" => phase = "ready")
    /\ [][phase = "ready"
          => (re'.TemplateCache = re.TemplateCache
              /\ re'.EnableCache = re.EnableCache)]_vars
    /\ []((phase = "ready" /\ re.EnableCache)
          => /\ lastBuild.site = "New"
             /\ re.TemplateCache = lastBuild.cache
             /\ \A c \in Threads :
                   calls[c].pc \in {"Lookup", "Executing", "Flushing", "returned"}
                   => calls[c].tc = lastBuild.cache)

\* Two calls in flight at once have both resolved to the populated cache.
C15_Witness ==
    /\ re.EnableCache
    /\ DOMAIN re.TemplateCache # {}
    /\ \E c1, c2 \in Threads :
          /\ c1 # c2
          /\ calls[c1].pc \in {"Lookup", "Executing"}
          /\ calls[c2].pc \in {"Lookup", "Executing"}
          /\ calls[c1].tc = re.TemplateCache
          /\ calls[c2].tc = re.TemplateCache

\* The callback invocations that report a file to keep.
Keeps(e) == ~e.isDir /\ Ext(e.path) = HtmlExt

PathsOf(es) == [i \in DOMAIN es |-> es[i].path]

\* C16: findHTMLFiles returns, when no step of the walk errors, exactly the
\* paths of the non-directories with the extension ".html", in the order of
\* the walk; when a step errors it returns that error and no files.
C16_FindReturnsMarkupFiles ==
    probe.done
    => LET es == probe.entries
           bad == {i \in DOMAIN es : es[i].err # NoErr}
       IN  IF bad = {}
           THEN /\ probe.out.err = NoErr
                /\ probe.out.files = PathsOf(SelectSeq(es, Keeps))
           ELSE /\ probe.out.files = <<>>
                /\ \E i \in bad : /\ \A j \in bad : i <= j
                                  /\ probe.out.err = es[i].err

\* A walk without errors that met two markup files and something else
\* returned the two, in order.
C16_Witness ==
    /\ probe.done
    /\ probe.out.err = NoErr
    /\ Len(probe.out.files) = 2
    /\ probe.out.files[1] # probe.out.files[2]
    /\ Len(probe.entries) > 2

\* C17: a call that failed with a build error or a lookup error has not
\* invoked the token capability and has left the caller's data as it was;
\* a call that failed at execution has set the token.
C17_TokenOnlyAfterLookup ==
    \A c \in Threads :
        Failed(c)
        => IF calls[c].ret.kind = "ExecutionError"
           THEN /\ calls[c].issued = 1
                /\ calls[c].td.CSRFToken = Token(calls[c].r)
           ELSE /\ calls[c].issued = 0
                /\ calls[c].td = calls[c].tdIn

\* A call for an unknown name returned with the caller's stale token still
\* in place.
C17_Witness ==
    \E c \in Threads :
        /\ Failed(c)
        /\ calls[c].ret.kind = "LookupError"
        /\ calls[c].issued = 0
        /\ calls[c].td.CSRFToken = "stale"
        /\ calls[c].td.CSRFToken # Token(calls[c].r)

====
